---- MODULE Spec2Model ----
(***************************************************************************)
(* A model of the publish/subscribe mediator of src/mediator_test.py and   *)
(* of the value layer built on it.  Every public operation is one action;  *)
(* the synchronous notification cascade an operation starts is computed by *)
(* the recursive operators below, which thread the whole program state     *)
(* (the record m) through every nested call, in the order the code makes   *)
(* them.  An exception is the field exc of m: once it is set, every loop   *)
(* stops and the operation returns with the state as it then is.           *)
(***************************************************************************)
EXTENDS Integers, Sequences, FiniteSets, TLC

\* ------------------------------------------------------------------ bounds

\* the most calls of Mediator.subscribe, _DynamicValue.subscribe and
\* _Value.publish together, beyond the one publish every factory makes
MaxCalls == 2
\* the deepest nesting of callbacks, and the deepest nesting of get_value
\* calls, before the interpreter gives up with RecursionError: more than any
\* nesting that ends by itself among the values modelled
MaxDepth == 4
\* the most calls of Mediator.subscribe and _DynamicValue.subscribe together
\* in the behaviours of SpecChain
MaxChainCalls == 3
\* the most calls of Mediator.add_observer
MaxObservers == 2

\* ------------------------------------------------------------------ names

\* topic names, and the names of the values that can be created
Names == {"a1", "a2", "a10"}

\* the names new_static_value is called with
StaticNames == {"a1"}

\* the names new_dynamic_value is called with
DynamicNames == {"a2"}

\* the characters of a topic name
Chars(n) ==
    CASE n = "a1" -> <<"a", "1">>
      [] n = "a2" -> <<"a", "2">>
      [] n = "a10" -> <<"a", "1", "0">>

\* the regular expressions given to new_multi_topic
Patterns == {"a\\d"}

\* the atoms of a regular expression: a literal character, \d, . and a
\* trailing + that repeats the atom before it
Atoms(p) ==
    CASE p = "a\\d" -> <<"a", "\\d">>

Digits == {"0", "1", "2", "3", "4", "5", "6", "7", "8", "9"}

\* the values new_static_value is called with
NewVals == {1}

\* the values set_value is called with
Vals == {1, 2}

\* plain callbacks given to Mediator.subscribe
Recorders == {"s1"}

\* plain callbacks given to Mediator.subscribe that raise when invoked
Failers == {"f1"}

\* observers given to Mediator.add_observer: o1 has the three methods of the
\* class Observer of the demo, which return; the methods of x1 raise
Observers == {"o1", "x1"}
FailingObservers == {"x1"}

\* ------------------------------------------------------------------ topics

\* Mediator.new_single_topic
Single(n) == [kind |-> "single", name |-> n]

\* Mediator.new_multi_topic
Multi(p) == [kind |-> "multi", name |-> p]

Keys == {Single(n) : n \in Names} \cup {Multi(p) : p \in Patterns}

\* _Topic.is_single_topic
IsSingleTopic(k) == k.kind = "single"

AtomMatches(a, c) ==
    \/ a = "."
    \/ a = "\\d" /\ c \in Digits
    \/ a \notin {".", "\\d"} /\ a = c

RECURSIVE MatchHere(_, _, _, _, _)
\* does pat from atom i on match cs from character j on; whole: the match
\* must use up cs
MatchHere(pat, i, cs, j, whole) ==
    IF i > Len(pat)
    THEN (~whole) \/ j > Len(cs)
    ELSE IF i + 1 <= Len(pat) /\ pat[i + 1] = "+"
         THEN /\ j <= Len(cs)
              /\ AtomMatches(pat[i], cs[j])
              /\ \/ MatchHere(pat, i, cs, j + 1, whole)
                 \/ MatchHere(pat, i + 2, cs, j + 1, whole)
         ELSE /\ j <= Len(cs)
              /\ AtomMatches(pat[i], cs[j])
              /\ MatchHere(pat, i + 1, cs, j + 1, whole)

\* re.match: the pattern matches a prefix of the name
PrefixMatch(p, n) == MatchHere(Atoms(p), 1, Chars(n), 1, FALSE)

\* re.Pattern.fullmatch
FullMatch(p, n) == MatchHere(Atoms(p), 1, Chars(n), 1, TRUE)

\* ------------------------------------------------------------------ dicts

\* A dict whose values are lists (_publishers_by_topic, _subscribers_by_topic)
\* is the sequence of its items [key, list] in insertion order.

\* key in dict
HasKey(d, k) == \E i \in 1..Len(d) : d[i].key = k

KeyIndex(d, k) == CHOOSE i \in 1..Len(d) : d[i].key = k

\* dict.get(k, [])
DictGet(d, k) == IF HasKey(d, k) THEN d[KeyIndex(d, k)].list ELSE <<>>

\* dict.setdefault(k, []), as the dict it leaves behind
DictSetDefault(d, k) ==
    IF HasKey(d, k) THEN d ELSE Append(d, [key |-> k, list |-> <<>>])

\* list.append(x) on the list stored under k
DictAppend(d, k, x) == [d EXCEPT ![KeyIndex(d, k)].list = Append(@, x)]

\* ------------------------------------------------------------------ state

\* The program state threaded through the operators:
\*   pubs, subs    Mediator._publishers_by_topic, Mediator._subscribers_by_topic
\*   observers     Mediator._observers
\*   vkind         which class the value of a name is an instance of
\*   value         _StaticValue._value
\*   published     _Value._published_topics
\*   subscribed    _DynamicValue._subscribed_topics
\*   calls         the callbacks invoked so far by the operation in progress
\*   exc           the exception in flight, "none" when there is none
\*   ret           the value the last call returned

Raise(m, e) == [m EXCEPT !.exc = e]

Failed(m) == m.exc # "none"

\* the statements after a call that left m: skipped when the call raised
Then(m, rest(_)) == IF Failed(m) THEN m ELSE rest(m)

\* the subscriber `lambda topic: self._notify_subscribers()` that the n-th
\* subscribe call of value v hands to the mediator
DynSubscriber(v, n) == [kind |-> "dyn", id |-> v, n |-> n]

\* a plain callback
RecSubscriber(s) == [kind |-> "rec", id |-> s, n |-> 0]

\* a plain callback that raises
FailSubscriber(s) == [kind |-> "bad", id |-> s, n |-> 0]

\* a plain callback that calls mediator.subscribe(s1, new_single_topic(t))
ResubSubscriber(t) == [kind |-> "resub", id |-> t, n |-> 0]

\* a plain callback that calls a1.publish(new_single_topic(t))
RepubSubscriber(t) == [kind |-> "repub", id |-> t, n |-> 0]

\* one invocation of a callback
Call(s, topic, depth, ev) ==
    [sub |-> s, topic |-> topic, depth |-> depth, seen |-> <<>>, ev |-> ev]

\* ------------------------------------------------------------------ queries

\* Mediator._get_publishers_for_topic that always creates the list
GetPublishersForTopicCreating(m, topic, create_if_absent) ==
    IF ~IsSingleTopic(topic)
    THEN Raise(m, "AssertionError")
    ELSE [m EXCEPT !.pubs = DictSetDefault(@, topic),
                   !.ret = DictGet(m.pubs, topic)]

\* Mediator._get_publishers_for_topic
GetPublishersForTopic(m, topic, create_if_absent) ==
    IF ~IsSingleTopic(topic)
    THEN Raise(m, "AssertionError")
    ELSE IF create_if_absent
         THEN [m EXCEPT !.pubs = DictSetDefault(@, topic),
                        !.ret = DictGet(m.pubs, topic)]
         ELSE [m EXCEPT !.ret = DictGet(m.pubs, topic)]

\* Mediator._get_subscribers_for_topic
GetSubscribersForTopic(m, topic, create_if_absent) ==
    IF create_if_absent
    THEN [m EXCEPT !.subs = DictSetDefault(@, topic),
                   !.ret = DictGet(m.subs, topic)]
    ELSE [m EXCEPT !.ret = DictGet(m.subs, topic)]

\* publisher(topic) for the publisher `lambda topic: self` of a value: the
\* value, whatever the topic
ApplyPublisher(publisher, topic) == publisher

\* _Topic._get_published_data_for_topic that returns the first publisher's
\* data only
GetPublishedDataForTopicFirst(m, topic) ==
    Then(GetPublishersForTopic(m, topic, FALSE),
         LAMBDA m1 : [m1 EXCEPT !.ret = IF m1.ret = <<>>
                                         THEN <<>>
                                         ELSE <<ApplyPublisher(m1.ret[1], topic)>>])

\* _Topic._get_published_data_for_topic
GetPublishedDataForTopic(m, topic) ==
    Then(GetPublishersForTopic(m, topic, FALSE),
         LAMBDA m1 : [m1 EXCEPT !.ret = [i \in 1..Len(m1.ret) |->
                                             ApplyPublisher(m1.ret[i], topic)]])

\* Mediator._get_all_publisher_topics: the keys of the dict, in its order
GetAllPublisherTopics(m) == [i \in 1..Len(m.pubs) |-> m.pubs[i].key]

\* the filter of _MultiTopic.get_published_data with re.match for fullmatch
SelectsForDataPrefix(pattern, publisher_topic) ==
    PrefixMatch(pattern, publisher_topic.name)

\* the filter of _MultiTopic.get_published_data:
\* self._name_pattern.fullmatch(publisher_topic._name)
SelectsForData(pattern, publisher_topic) ==
    FullMatch(pattern, publisher_topic.name)

RECURSIVE MultiTopicData(_, _, _, _, _)
\* _MultiTopic.get_published_data, consumed at once: the loop over
\* _get_all_publisher_topics() from item i on; n0 is the size of the dict when
\* the iteration began, and a dict of another size ends it with RuntimeError
MultiTopicData(m, pattern, i, n0, acc) ==
    IF Failed(m) THEN m
    ELSE IF Len(m.pubs) # n0 THEN Raise(m, "RuntimeError")
    ELSE IF i > Len(m.pubs) THEN [m EXCEPT !.ret = acc]
    ELSE LET publisher_topic == GetAllPublisherTopics(m)[i]
         IN IF SelectsForData(pattern, publisher_topic)
            THEN Then(GetPublishedDataForTopic(m, publisher_topic),
                      LAMBDA m1 : MultiTopicData(m1, pattern, i + 1, n0,
                                                 acc \o m1.ret))
            ELSE MultiTopicData(m, pattern, i + 1, n0, acc)

\* _SingleTopic.get_published_data and _MultiTopic.get_published_data
TopicGetPublishedData(m, topic) ==
    IF IsSingleTopic(topic)
    THEN GetPublishedDataForTopic(m, topic)
    ELSE MultiTopicData(m, topic.name, 1, Len(m.pubs), <<>>)

RECURSIVE PublishedDataLoop(_, _, _, _)
PublishedDataLoop(m, topics, i, acc) ==
    IF i > Len(topics) THEN [m EXCEPT !.ret = acc]
    ELSE Then(TopicGetPublishedData(m, topics[i]),
              LAMBDA m1 : PublishedDataLoop(m1, topics, i + 1, acc \o m1.ret))

\* Mediator.get_published_data(*topics), its result consumed at once, as
\* _DynamicValue.get_value and the subscriber of the demo consume it
GetPublishedData(m, topics) == PublishedDataLoop(m, topics, 1, <<>>)

\* a fold that keeps the last item only
ReduceLast(xs, acc) == IF xs = <<>> THEN acc ELSE xs[Len(xs)]

RECURSIVE Reduce(_, _)
\* functools.reduce(operator.add, xs, acc)
Reduce(xs, acc) ==
    IF xs = <<>> THEN acc ELSE Reduce(Tail(xs), acc + Head(xs))

\* the fold of _DynamicValue.get_value seeded with 1
SumFromOne(xs) == Reduce(xs, 1)

\* the fold of _DynamicValue.get_value: the sum seeded with 0
Sum(xs) == Reduce(xs, 0)

RECURSIVE GetValue(_, _, _), GetValues(_, _, _, _, _)

\* [value.get_value() for value in vs], from item i on; d is the depth of
\* the caller
GetValues(m, vs, i, acc, d) ==
    IF i > Len(vs) THEN [m EXCEPT !.ret = acc]
    ELSE Then(GetValue(m, vs[i], d),
              LAMBDA m1 : GetValues(m1, vs, i + 1, Append(acc, m1.ret), d))

\* _StaticValue.get_value and _DynamicValue.get_value
GetValue(m, v, d) ==
    IF d >= MaxDepth THEN Raise(m, "RecursionError")
    ELSE IF m.vkind[v] = "static" THEN [m EXCEPT !.ret = m.value[v]]
    ELSE Then(GetPublishedData(m, m.subscribed[v]),
              LAMBDA m1 :
                  Then(GetValues(m1, m1.ret, 1, <<>>, d + 1),
                       LAMBDA m2 : [m2 EXCEPT !.ret = Sum(m2.ret)]))

\* ------------------------------------------------------------------ notification

\* action(observer): the observer's method ev is called with the topic
InvokeObserver(m, observer, ev, topic, d) ==
    LET m1 == [m EXCEPT !.calls = Append(@,
                   Call([kind |-> "obs", id |-> observer, n |-> 0],
                        topic, d + 1, ev))]
    IN IF observer \in FailingObservers THEN Raise(m1, "ObserverError") ELSE m1

RECURSIVE NotifyObserversIsolating(_, _, _, _, _)
\* Mediator._notify_observers that catches what an observer raises
NotifyObserversIsolating(m, ev, topic, i, d) ==
    IF Failed(m) \/ i > Len(m.observers) THEN m
    ELSE NotifyObserversIsolating(
             [InvokeObserver(m, m.observers[i], ev, topic, d)
                  EXCEPT !.exc = "none"],
             ev, topic, i + 1, d)

RECURSIVE NotifyObservers(_, _, _, _, _)
\* Mediator._notify_observers, from observer i on: action(observer) for
\* every observer, where the action calls the observer's method ev
NotifyObservers(m, ev, topic, i, d) ==
    IF Failed(m) \/ i > Len(m.observers) THEN m
    ELSE NotifyObservers(InvokeObserver(m, m.observers[i], ev, topic, d),
                         ev, topic, i + 1, d)

\* _SingleTopic.matches and _MultiTopic.matches
KeyMatches(subscriber_topic, topic) ==
    IF IsSingleTopic(subscriber_topic)
    THEN subscriber_topic.name = topic.name
    ELSE FullMatch(subscriber_topic.name, topic.name)

RECURSIVE InvokeSubscriber(_, _, _, _)
RECURSIVE NotifySubscribersForTopic(_, _, _, _, _)
RECURSIVE MultiTopicNotify(_, _, _, _, _, _)
RECURSIVE NotifyKeys(_, _, _, _, _)
RECURSIVE NotifyTopics(_, _, _, _)
RECURSIVE Subscribe(_, _, _, _)
RECURSIVE ValuePublish(_, _, _, _)

\* the rows a subscriber prints: the value and what its get_value returned
Seen(vs, xs) == [i \in 1..Len(vs) |-> [val |-> vs[i], x |-> xs[i]]]

\* the plain callback of the demo (lines 238-241), called with topic: it
\* reads get_value of every value of mediator.get_published_data(topic);
\* what it read is kept in its entry of calls; the nesting of get_value
\* calls is counted from the callback
Recorder(m, topic, d) ==
    Then(GetPublishedData(m, <<topic>>),
         LAMBDA m1 :
             Then(GetValues(m1, m1.ret, 1, <<>>, 0),
                  LAMBDA m2 : [m2 EXCEPT !.calls[Len(m.calls)].seen =
                                             Seen(m1.ret, m2.ret)]))

\* Mediator.notify_subscribers(*topics) at depth d
NotifySubscribers(m, topics, d) == NotifyTopics(m, topics, 1, d)

\* _Value._notify_subscribers that only a call from outside sets off: a
\* value notified by a callback keeps quiet
ValueNotifySubscribersOutermost(m, v, d) ==
    IF d = 0 THEN NotifyTopics(m, m.published[v], 1, d) ELSE m

\* _Value._notify_subscribers that also notifies the exact topics the value
\* has subscribed to
ValueNotifySubscribersUpstream(m, v, d) ==
    NotifyTopics(m,
                 m.published[v]
                     \o SelectSeq(m.subscribed[v], LAMBDA k : IsSingleTopic(k)),
                 1, d)

\* _Value._notify_subscribers
ValueNotifySubscribers(m, v, d) == NotifySubscribers(m, m.published[v], d)

\* subscriber(topic) with cycle detection: a subscriber the operation in
\* progress has invoked with the topic before is not invoked again
InvokeSubscriberDetecting(m, s, topic, d) ==
    IF d >= MaxDepth THEN Raise(m, "RecursionError")
    ELSE IF \E c \in 1..Len(m.calls) :
                m.calls[c].sub = s /\ m.calls[c].topic = topic
    THEN m
    ELSE LET m1 == [m EXCEPT !.calls = Append(@, Call(s, topic, d + 1, "call"))]
         IN CASE s.kind = "rec" -> Recorder(m1, topic, d + 1)
              [] s.kind = "dyn" -> ValueNotifySubscribers(m1, s.id, d + 1)
              [] s.kind = "bad" -> Raise(m1, "SubscriberError")
              [] s.kind = "resub" ->
                     Subscribe(m1, RecSubscriber("s1"), <<Single(s.id)>>, d + 1)
              [] s.kind = "repub" ->
                     ValuePublish(m1, "a1", <<Single(s.id)>>, d + 1)

\* subscriber(topic), called from depth d
InvokeSubscriber(m, s, topic, d) ==
    IF d >= MaxDepth THEN Raise(m, "RecursionError")
    ELSE LET m1 == [m EXCEPT !.calls = Append(@, Call(s, topic, d + 1, "call"))]
         IN CASE s.kind = "rec" -> Recorder(m1, topic, d + 1)
              [] s.kind = "dyn" -> ValueNotifySubscribers(m1, s.id, d + 1)
              [] s.kind = "bad" -> Raise(m1, "SubscriberError")
              [] s.kind = "resub" ->
                     Subscribe(m1, RecSubscriber("s1"), <<Single(s.id)>>, d + 1)
              [] s.kind = "repub" ->
                     ValuePublish(m1, "a1", <<Single(s.id)>>, d + 1)

\* _Topic._notify_subscribers_for_topic that catches what a subscriber raises
NotifySubscribersForTopicIsolating(m, subscribers, topic, i, d) ==
    IF Failed(m) THEN m
    ELSE IF ~IsSingleTopic(topic) THEN Raise(m, "AssertionError")
    ELSE IF i > Len(subscribers) THEN m
    ELSE NotifySubscribersForTopic(
             [InvokeSubscriber(m, subscribers[i], topic, d) EXCEPT !.exc = "none"],
             subscribers, topic, i + 1, d)

\* _Topic._notify_subscribers_for_topic, from subscriber i on
NotifySubscribersForTopic(m, subscribers, topic, i, d) ==
    IF Failed(m) THEN m
    ELSE IF ~IsSingleTopic(topic) THEN Raise(m, "AssertionError")
    ELSE IF i > Len(subscribers) THEN m
    ELSE NotifySubscribersForTopic(
             InvokeSubscriber(m, subscribers[i], topic, d),
             subscribers, topic, i + 1, d)

\* the filter of _MultiTopic.notify_subscribers with re.match for fullmatch
SelectsForNotifyPrefix(pattern, publisher_topic) ==
    PrefixMatch(pattern, publisher_topic.name)

\* the filter of _MultiTopic.notify_subscribers:
\* self._name_pattern.fullmatch(publisher_topic._name)
SelectsForNotify(pattern, publisher_topic) ==
    FullMatch(pattern, publisher_topic.name)

\* _MultiTopic.notify_subscribers: the loop over _get_all_publisher_topics()
\* from item i on; n0 is the size of the dict when the iteration began
MultiTopicNotify(m, pattern, subscribers, i, n0, d) ==
    IF Failed(m) THEN m
    ELSE IF Len(m.pubs) # n0 THEN Raise(m, "RuntimeError")
    ELSE IF i > Len(m.pubs) THEN m
    ELSE LET publisher_topic == GetAllPublisherTopics(m)[i]
         IN MultiTopicNotify(
                IF SelectsForNotify(pattern, publisher_topic)
                THEN NotifySubscribersForTopic(m, subscribers, publisher_topic, 1, d)
                ELSE m,
                pattern, subscribers, i + 1, n0, d)

\* _SingleTopic.notify_subscribers and _MultiTopic.notify_subscribers
TopicNotifySubscribers(m, topic, subscribers, d) ==
    IF IsSingleTopic(topic)
    THEN NotifySubscribersForTopic(m, subscribers, topic, 1, d)
    ELSE MultiTopicNotify(m, topic.name, subscribers, 1, Len(m.pubs), d)

\* Mediator._get_all_subscriber_topics with the exact keys before the patterns
GetAllSubscriberTopicsExactFirst(m) ==
    LET keys == [i \in 1..Len(m.subs) |-> m.subs[i].key]
    IN SelectSeq(keys, LAMBDA k : IsSingleTopic(k))
           \o SelectSeq(keys, LAMBDA k : ~IsSingleTopic(k))

\* Mediator._get_all_subscriber_topics: the keys of the dict, in its order
GetAllSubscriberTopics(m) == [i \in 1..Len(m.subs) |-> m.subs[i].key]

\* the body of the loop of Mediator._notify_subscribers, calling
\* notify_subscribers on the subscriber's key instead of the topic
NotifyKeyOnKey(m, subscriber_topic, topic, d) ==
    IF KeyMatches(subscriber_topic, topic)
    THEN Then(GetSubscribersForTopic(m, subscriber_topic, FALSE),
              LAMBDA m1 : TopicNotifySubscribers(m1, subscriber_topic, m1.ret, d))
    ELSE m

\* the body of the loop of Mediator._notify_subscribers that leaves out the
\* subscribers an earlier key has had invoked with the topic
NotifyKeyDedup(m, subscriber_topic, topic, d) ==
    IF KeyMatches(subscriber_topic, topic)
    THEN Then(GetSubscribersForTopic(m, subscriber_topic, FALSE),
              LAMBDA m1 :
                  TopicNotifySubscribers(
                      m1, topic,
                      SelectSeq(m1.ret,
                                LAMBDA s : ~\E c \in 1..Len(m1.calls) :
                                                /\ m1.calls[c].sub = s
                                                /\ m1.calls[c].topic = topic
                                                /\ m1.calls[c].depth = d + 1),
                      d))
    ELSE m

\* the body of the loop of Mediator._notify_subscribers: the list of a
\* matching key is handed on as the tuple it is when the key is reached
NotifyKey(m, subscriber_topic, topic, d) ==
    IF KeyMatches(subscriber_topic, topic)
    THEN Then(GetSubscribersForTopic(m, subscriber_topic, FALSE),
              LAMBDA m1 : TopicNotifySubscribers(m1, topic, m1.ret, d))
    ELSE m

\* the loop of Mediator._notify_subscribers over _get_all_subscriber_topics()
\* from item i on; n0 is the size of the dict when the iteration began
NotifyKeys(m, topic, i, n0, d) ==
    IF Failed(m) THEN m
    ELSE IF Len(m.subs) # n0 THEN Raise(m, "RuntimeError")
    ELSE IF i > Len(m.subs) THEN m
    ELSE NotifyKeys(NotifyKey(m, GetAllSubscriberTopics(m)[i], topic, d),
                    topic, i + 1, n0, d)

\* Mediator._notify_subscribers
NotifyTopic(m, topic, d) ==
    IF ~IsSingleTopic(topic) THEN Raise(m, "AssertionError")
    ELSE Then(NotifyObservers(m, "topic_published", topic, 1, d),
              LAMBDA m1 : NotifyKeys(m1, topic, 1, Len(m1.subs), d))

NotifyTopics(m, topics, i, d) ==
    IF Failed(m) \/ i > Len(topics) THEN m
    ELSE NotifyTopics(NotifyTopic(m, topics[i], d), topics, i + 1, d)

\* ------------------------------------------------------------------ mediator

\* Mediator._add_publisher
AddPublisher(m, publisher, topic, d) ==
    Then(GetPublishersForTopic(m, topic, TRUE),
         LAMBDA m1 : NotifyObservers(
                         [m1 EXCEPT !.pubs = DictAppend(@, topic, publisher)],
                         "publisher_added", topic, 1, d))

\* Mediator._add_subscriber that puts the subscriber at the head of the list
AddSubscriberFirst(m, subscriber, topic, d) ==
    Then(GetSubscribersForTopic(m, topic, TRUE),
         LAMBDA m1 :
             LET i == KeyIndex(m1.subs, topic)
             IN NotifyObservers(
                    [m1 EXCEPT !.subs[i].list = <<subscriber>> \o m1.subs[i].list],
                    "subscriber_added", topic, 1, d))

\* Mediator._add_subscriber
AddSubscriber(m, subscriber, topic, d) ==
    Then(GetSubscribersForTopic(m, topic, TRUE),
         LAMBDA m1 : NotifyObservers(
                         [m1 EXCEPT !.subs = DictAppend(@, topic, subscriber)],
                         "subscriber_added", topic, 1, d))

RECURSIVE PublishLoop(_, _, _, _, _)
PublishLoop(m, publisher, topics, i, d) ==
    IF Failed(m) \/ i > Len(topics) THEN m
    ELSE PublishLoop(
             Then(AddPublisher(m, publisher, topics[i], d),
                  LAMBDA m1 : NotifyTopic(m1, topics[i], d)),
             publisher, topics, i + 1, d)

\* Mediator.publish(publisher, *topics)
Publish(m, publisher, topics, d) == PublishLoop(m, publisher, topics, 1, d)

\* the replay of Mediator.subscribe, once for every publisher of the topic
ReplayPerPublisher(m, subscriber, topic, d) ==
    TopicNotifySubscribers(
        m, topic,
        IF IsSingleTopic(topic)
        THEN [i \in 1..Len(DictGet(m.pubs, topic)) |-> subscriber]
        ELSE <<subscriber>>,
        d)

\* the replay of Mediator.subscribe: topic.notify_subscribers(subscriber)
Replay(m, subscriber, topic, d) ==
    TopicNotifySubscribers(m, topic, <<subscriber>>, d)

RECURSIVE SubscribeLoop(_, _, _, _, _)
SubscribeLoop(m, subscriber, topics, i, d) ==
    IF Failed(m) \/ i > Len(topics) THEN m
    ELSE SubscribeLoop(
             Then(AddSubscriber(m, subscriber, topics[i], d),
                  LAMBDA m1 : Replay(m1, subscriber, topics[i], d)),
             subscriber, topics, i + 1, d)

\* Mediator.subscribe(subscriber, *topics)
Subscribe(m, subscriber, topics, d) == SubscribeLoop(m, subscriber, topics, 1, d)

\* ------------------------------------------------------------------ values

\* _Value.publish(*topics)
ValuePublish(m, v, topics, d) ==
    IF \E i \in 1..Len(topics) : ~IsSingleTopic(topics[i])
    THEN Raise(m, "AssertionError")
    ELSE Publish([m EXCEPT !.published[v] = @ \o topics], v, topics, d)

\* _DynamicValue.subscribe(*topics)
ValueSubscribe(m, v, topics, d) ==
    LET m1 == [m EXCEPT !.subscribed[v] = @ \o topics]
    IN Subscribe(m1, DynSubscriber(v, Len(m1.subscribed[v])), topics, d)

\* _StaticValue.set_value that notifies before it stores
SetValueNotifyFirst(m, v, value) ==
    Then(ValueNotifySubscribers(m, v, 0),
         LAMBDA m1 : [m1 EXCEPT !.value[v] = value])

\* _StaticValue.set_value
SetValue(m, v, value) ==
    ValueNotifySubscribers([m EXCEPT !.value[v] = value], v, 0)

\* Mediator.new_static_value(name, value)
NewStaticValue(m, name, value) ==
    ValuePublish([m EXCEPT !.vkind[name] = "static",
                           !.value[name] = value,
                           !.published[name] = <<>>],
                 name, <<Single(name)>>, 0)

\* Mediator.new_dynamic_value(name)
NewDynamicValue(m, name) ==
    ValuePublish([m EXCEPT !.vkind[name] = "dynamic",
                           !.published[name] = <<>>,
                           !.subscribed[name] = <<>>],
                 name, <<Single(name)>>, 0)

\* Mediator.new_static_value(name, value), the value object being v: two
\* objects may be created with one name
NewStaticValueAs(m, v, name, value) ==
    ValuePublish([m EXCEPT !.vkind[v] = "static",
                           !.value[v] = value,
                           !.published[v] = <<>>],
                 v, <<Single(name)>>, 0)

\* Mediator.new_dynamic_value(name), the value object being v
NewDynamicValueAs(m, v, name) ==
    ValuePublish([m EXCEPT !.vkind[v] = "dynamic",
                           !.published[v] = <<>>,
                           !.subscribed[v] = <<>>],
                 v, <<Single(name)>>, 0)

\* _Value.get_topic: the topic made from the name, which the factory
\* publishes first
GetTopic(m, v) == m.published[v][1]

\* ------------------------------------------------------------------ value.py

\* The state of the objects of value.py, threaded like m:
\*   kind        which class the object is an instance of, or "none"
\*   name        Value._name
\*   value       FixedValue._value
\*   observers   Value._observers
\*   providers   DynamicValue._providers
\*   notes       what the plain observers printed during the call in progress
\*   exc, ret    as in m

\* value.py needs three frames where the mediator needs six for one more
\* nested callback, so it nests twice as deep before the interpreter's limit
DirectDepth == 2 * MaxDepth

\* the observer `lambda value: self._notify_observers()` of add_provider
DynObserver(v) == [kind |-> "dyn", id |-> v]

\* a plain observer, which prints get_name() and get_value() of the value
RecObserver(o) == [kind |-> "rec", id |-> o]

RECURSIVE DirectGetValue(_, _, _)
RECURSIVE DirectGetValues(_, _, _, _, _)

\* [provider.get_value() for provider in self._providers], from provider i on
DirectGetValues(dm, ps, i, acc, g) ==
    IF i > Len(ps) THEN [dm EXCEPT !.ret = acc]
    ELSE Then(DirectGetValue(dm, ps[i], g),
              LAMBDA d1 : DirectGetValues(d1, ps, i + 1, Append(acc, d1.ret), g))

\* FixedValue.get_value and DynamicValue.get_value
DirectGetValue(dm, v, g) ==
    IF g >= MaxDepth THEN Raise(dm, "RecursionError")
    ELSE IF dm.kind[v] = "fixed" THEN [dm EXCEPT !.ret = dm.value[v]]
    ELSE Then(DirectGetValues(dm, dm.providers[v], 1, <<>>, g + 1),
              LAMBDA d1 : [d1 EXCEPT !.ret = Sum(d1.ret)])

\* what a plain observer prints
Note(o, name, x) == [obs |-> o, name |-> name, x |-> x]

RECURSIVE DirectNotifyObserver(_, _, _, _)
RECURSIVE DirectNotifyObservers(_, _, _, _)

\* Value._notify_observer: observer(self), called from depth d
DirectNotifyObserver(dm, v, observer, d) ==
    IF d >= DirectDepth THEN Raise(dm, "RecursionError")
    ELSE IF observer.kind = "rec"
    THEN Then(DirectGetValue(dm, v, 0),
              LAMBDA d1 : [d1 EXCEPT !.notes =
                                         Append(@, Note(observer.id, d1.name[v], d1.ret))])
    ELSE DirectNotifyObservers(dm, observer.id, 1, d + 1)

\* Value._notify_observers: the loop over the list itself, from observer i on
DirectNotifyObservers(dm, v, i, d) ==
    IF Failed(dm) \/ i > Len(dm.observers[v]) THEN dm
    ELSE DirectNotifyObservers(
             DirectNotifyObserver(dm, v, dm.observers[v][i], d), v, i + 1, d)

\* Value.add_observer that does not notify the new observer
DirectAddObserverSilent(dm, v, observer, d) ==
    [dm EXCEPT !.observers[v] = Append(@, observer)]

\* Value.add_observer
DirectAddObserver(dm, v, observer, d) ==
    DirectNotifyObserver([dm EXCEPT !.observers[v] = Append(@, observer)],
                         v, observer, d)

\* DynamicValue.add_provider
DirectAddProvider(dm, v, provider) ==
    DirectAddObserver([dm EXCEPT !.providers[v] = Append(@, provider)],
                      provider, DynObserver(v), 0)

\* FixedValue.set_value
DirectSetValue(dm, v, x) ==
    DirectNotifyObservers([dm EXCEPT !.value[v] = x], v, 1, 0)

\* FixedValue(name, x), the object being v
NewFixedValue(dm, v, name, x) ==
    [dm EXCEPT !.kind[v] = "fixed", !.name[v] = name, !.value[v] = x,
               !.observers[v] = <<>>]

\* DynamicValue(name), the object being v
NewDirectDynamicValue(dm, v, name) ==
    [dm EXCEPT !.kind[v] = "dynamic", !.name[v] = name,
               !.observers[v] = <<>>, !.providers[v] = <<>>]

\* ------------------------------------------------------------------ the program

VARIABLES
    pubs,        \* Mediator._publishers_by_topic
    subs,        \* Mediator._subscribers_by_topic
    observers,   \* Mediator._observers
    vkind,       \* per name: "none", or the class of the value created with it
    value,       \* _StaticValue._value
    published,   \* _Value._published_topics
    subscribed,  \* _DynamicValue._subscribed_topics
    op,          \* the last operation called and its arguments
    calls,       \* the callbacks the last operation invoked, in order
    exc,         \* the exception the last operation ended with, or "none"
    ret,         \* what the last operation returned
    pre,         \* the program state the last operation started in
    direct       \* the objects of value.py, given the same calls

vars == <<pubs, subs, observers, vkind, value, published, subscribed,
          op, calls, exc, ret, pre, direct>>

NoSubscriber == [kind |-> "none", id |-> "", n |-> 0]

Op(name, sub, topics, val, x) ==
    [name |-> name, sub |-> sub, topics |-> topics, val |-> val, x |-> x]

\* the program state as an operation finds it
Now ==
    [pubs |-> pubs, subs |-> subs, observers |-> observers, vkind |-> vkind,
     value |-> value, published |-> published, subscribed |-> subscribed,
     calls |-> <<>>, exc |-> "none", ret |-> <<>>]

\* the operation o ran from Now to m in the mediator
RanMediator(o, m) ==
    /\ pubs' = m.pubs
    /\ subs' = m.subs
    /\ observers' = m.observers
    /\ vkind' = m.vkind
    /\ value' = m.value
    /\ published' = m.published
    /\ subscribed' = m.subscribed
    /\ calls' = m.calls
    /\ exc' = m.exc
    /\ ret' = IF Failed(m) THEN <<>> ELSE m.ret
    /\ op' = o
    /\ pre' = Now

\* the operation o ran from Now to m, and value.py was not called
Ran(o, m) == RanMediator(o, m) /\ UNCHANGED direct

\* the objects of value.py as a call finds them
DirectNow == [direct EXCEPT !.notes = <<>>, !.exc = "none", !.ret = <<>>]

\* Mediator() and no value yet
Init ==
    /\ pubs = <<>>
    /\ subs = <<>>
    /\ observers = <<>>
    /\ vkind = [n \in Names |-> "none"]
    /\ value = [n \in Names |-> 0]
    /\ published = [n \in Names |-> <<>>]
    /\ subscribed = [n \in Names |-> <<>>]
    /\ op = Op("init", NoSubscriber, <<>>, "", 0)
    /\ calls = <<>>
    /\ exc = "none"
    /\ ret = <<>>
    /\ pre = Now
    /\ direct = [kind |-> [n \in Names |-> "none"],
                 name |-> [n \in Names |-> ""],
                 value |-> [n \in Names |-> 0],
                 observers |-> [n \in Names |-> <<>>],
                 providers |-> [n \in Names |-> <<>>],
                 notes |-> <<>>, exc |-> "none", ret |-> <<>>]

RECURSIVE TotalLen(_, _)
TotalLen(d, i) == IF i > Len(d) THEN 0 ELSE Len(d[i].list) + TotalLen(d, i + 1)

\* the subscribe calls made so far
NumSubs == TotalLen(subs, 1)

Created == {n \in Names : vkind[n] # "none"}

\* the publish calls made so far beyond those of the factories
NumPubs == TotalLen(pubs, 1) - Cardinality(Created)

\* a return value of None
None == <<>>

\* the calls that change neither the mediator nor a value
Queries == {"notify_subscribers", "get_published_data", "get_value"}

\* A behaviour is a sequence of calls that build the registry and set values,
\* ended by at most one query: a query leaves the program state as it found
\* it, so every program state is reached, and queried, without a query
\* before it.
Quiet == op.name \notin Queries

\* mediator.new_static_value(n, x)
DoNewStaticValue(n, x) ==
    /\ Quiet
    /\ vkind[n] = "none"
    /\ Ran(Op("new_static_value", NoSubscriber, <<Single(n)>>, n, x),
           [NewStaticValue(Now, n, x) EXCEPT !.ret = None])

\* mediator.new_dynamic_value(n)
DoNewDynamicValue(n) ==
    /\ Quiet
    /\ vkind[n] = "none"
    /\ Ran(Op("new_dynamic_value", NoSubscriber, <<Single(n)>>, n, 0),
           [NewDynamicValue(Now, n) EXCEPT !.ret = None])

\* v.publish(mediator.new_single_topic(t))
DoValuePublish(v, t) ==
    /\ Quiet
    /\ vkind[v] # "none"
    /\ NumSubs + NumPubs < MaxCalls
    /\ Ran(Op("publish", NoSubscriber, <<Single(t)>>, v, 0),
           [ValuePublish(Now, v, <<Single(t)>>, 0) EXCEPT !.ret = None])

\* v.subscribe(k)
DoValueSubscribe(v, k) ==
    /\ Quiet
    /\ vkind[v] = "dynamic"
    /\ NumSubs + NumPubs < MaxCalls
    /\ Ran(Op("value_subscribe", DynSubscriber(v, Len(subscribed[v]) + 1),
              <<k>>, v, 0),
           [ValueSubscribe(Now, v, <<k>>, 0) EXCEPT !.ret = None])

\* v.set_value(x)
DoSetValue(v, x) ==
    /\ Quiet
    /\ vkind[v] = "static"
    /\ Ran(Op("set_value", NoSubscriber, published[v], v, x),
           [SetValue(Now, v, x) EXCEPT !.ret = None])

\* mediator.subscribe(s, k) with a plain callback s
DoSubscribe(s, k) ==
    /\ Quiet
    /\ NumSubs + NumPubs < MaxCalls
    /\ Ran(Op("subscribe", RecSubscriber(s), <<k>>, "", 0),
           [Subscribe(Now, RecSubscriber(s), <<k>>, 0) EXCEPT !.ret = None])

\* mediator.notify_subscribers(mediator.new_single_topic(t))
DoNotifySubscribers(t) ==
    /\ Quiet
    /\ Ran(Op("notify_subscribers", NoSubscriber, <<Single(t)>>, "", 0),
           [NotifySubscribers(Now, <<Single(t)>>, 0) EXCEPT !.ret = None])

\* list(mediator.get_published_data(*ks))
DoGetPublishedData(ks) ==
    /\ Quiet
    /\ Ran(Op("get_published_data", NoSubscriber, ks, "", 0),
           GetPublishedData(Now, ks))

\* v.get_value()
DoGetValue(v) ==
    /\ Quiet
    /\ vkind[v] # "none"
    /\ Ran(Op("get_value", NoSubscriber, <<>>, v, 0), GetValue(Now, v, 0))

\* the argument lists get_published_data is called with
KeyLists == {<<k>> : k \in Keys} \cup {<<k1, k2>> : k1 \in Keys, k2 \in Keys}

Next ==
    \/ \E n \in StaticNames, x \in NewVals : DoNewStaticValue(n, x)
    \/ \E n \in DynamicNames : DoNewDynamicValue(n)
    \/ \E v \in Names, t \in Names : DoValuePublish(v, t)
    \/ \E v \in Names, k \in Keys : DoValueSubscribe(v, k)
    \/ \E v \in Names, x \in Vals : DoSetValue(v, x)
    \/ \E s \in Recorders, k \in Keys : DoSubscribe(s, k)
    \/ \E t \in Names : DoNotifySubscribers(t)
    \/ \E ks \in KeyLists : DoGetPublishedData(ks)
    \/ \E v \in Names : DoGetValue(v)

Spec == Init /\ [][Next]_vars

\* ------------------------------------------------------------------ properties

\* the callbacks the last operation invoked itself, in order: not those a
\* callback's own calls into the mediator invoked
Direct == SelectSeq(calls, LAMBDA c : c.depth = 1 /\ c.ev = "call")

\* the first topic or key the last operation was called with
TheKey == op.topics[1]

IsSubscribeOp == op.name \in {"subscribe", "value_subscribe"}

\* the operations that end in Mediator.publish
IsPublishOp == op.name \in {"publish", "new_static_value", "new_dynamic_value"}

\* the operations that notify the subscribers of topics, the topics being
\* op.topics
IsNotifyingOp == IsPublishOp \/ op.name \in {"notify_subscribers", "set_value"}

\* how often x occurs in the sequence xs
Count(xs, x) == Cardinality({i \in 1..Len(xs) : xs[i] = x})

\* what it is for a key to denote an exact topic t
Denotes(k, t) ==
    IF k.kind = "single" THEN k.name = t.name ELSE FullMatch(k.name, t.name)

\* the exact topics of the dict d that have a publisher and that the pattern p
\* matches as a whole, in the order they were first published
MatchingTopics(d, p) ==
    LET live == SelectSeq(d, LAMBDA e : e.list # <<>> /\ FullMatch(p, e.key.name))
    IN [i \in 1..Len(live) |-> live[i].key]

RECURSIVE MatchingSubscribers(_, _, _)
\* the subscribers of the dict d under the keys that denote t, key by key in
\* the order the keys were first subscribed, from key i on
MatchingSubscribers(d, t, i) ==
    IF i > Len(d) THEN <<>>
    ELSE (IF Denotes(d[i].key, t) THEN d[i].list ELSE <<>>)
             \o MatchingSubscribers(d, t, i + 1)

\* the subscribers of d under the patterns that match t
PatternSubscribers(d, t) ==
    MatchingSubscribers(SelectSeq(d, LAMBDA e : e.key.kind = "multi"), t, 1)

\* C1: subscribe(s, k) with an exact key k that already has one or more
\* publishers invokes s exactly once, with k, as the first thing the call
\* invokes, however many publishers k has; a plain callback s is not invoked
\* a second time by anything the call sets off.
C1_ExactReplayOnce ==
    (IsSubscribeOp /\ IsSingleTopic(TheKey) /\ DictGet(pre.pubs, TheKey) # <<>>)
        => /\ Len(Direct) = 1
           /\ Direct[1].sub = op.sub
           /\ Direct[1].topic = TheKey
           /\ calls[1] = Direct[1]
           /\ op.sub.kind = "rec" => Len(calls) = 1

\* a plain callback subscribed to an exact topic that two values publish, and
\* invoked once
C1_Witness ==
    /\ op.name = "subscribe"
    /\ IsSingleTopic(TheKey)
    /\ Len(DictGet(pre.pubs, TheKey)) = 2
    /\ Len(calls) = 1
    /\ calls[1].sub = op.sub
    /\ exc = "none"

\* C2: subscribe(s, k) with an exact key k that has no publisher does not
\* invoke s during the call.
C2_NoReplayWithoutPublisher ==
    (IsSubscribeOp /\ IsSingleTopic(TheKey) /\ DictGet(pre.pubs, TheKey) = <<>>)
        => \A i \in 1..Len(calls) : calls[i].sub # op.sub

\* C3: subscribe(s, k) with a pattern k invokes s once for each exact topic
\* that has a publisher and that k matches as a whole, with that topic, in the
\* order the topics were first published; a callback that raises ends the
\* replay there; with no such topic nothing is invoked and the call returns.
C3_PatternReplay ==
    (IsSubscribeOp /\ ~IsSingleTopic(TheKey))
        => LET want == MatchingTopics(pre.pubs, TheKey.name)
           IN /\ Len(Direct) <= Len(want)
              /\ \A i \in 1..Len(Direct) :
                     Direct[i].sub = op.sub /\ Direct[i].topic = want[i]
              /\ exc = "none" => Len(Direct) = Len(want)
              /\ want = <<>> => calls = <<>> /\ exc = "none"

\* a pattern subscribed while two matching topics and one other are published
C3_Witness ==
    /\ op.name = "subscribe"
    /\ ~IsSingleTopic(TheKey)
    /\ Len(MatchingTopics(pre.pubs, TheKey.name)) = 2
    /\ Len(pre.pubs) = 3
    /\ Len(Direct) = 2
    /\ exc = "none"

\* C4 as claimed: notify_subscribers(t) invokes the subscribers of the exact
\* key t before those of the patterns that match t.
C4_ExactBeforePattern ==
    (op.name = "notify_subscribers" /\ exc = "none")
        => [i \in 1..Len(Direct) |-> Direct[i].sub]
               = DictGet(pre.subs, TheKey) \o PatternSubscribers(pre.subs, TheKey)

\* C4 as amended: notify_subscribers(t) invokes the subscribers key by key in
\* the order in which the keys that denote t were first subscribed, each key's
\* subscribers in the order they subscribed, all with t; a callback that
\* raises ends the pass there.
C4_KeyOrder ==
    op.name = "notify_subscribers"
        => LET want == MatchingSubscribers(pre.subs, TheKey, 1)
           IN /\ Len(Direct) <= Len(want)
              /\ \A i \in 1..Len(Direct) :
                     Direct[i].sub = want[i] /\ Direct[i].topic = TheKey
              /\ exc = "none" => Len(Direct) = Len(want)

\* a topic notified whose pattern key was subscribed before its exact key,
\* each with one subscriber
C4_Witness ==
    /\ op.name = "notify_subscribers"
    /\ exc = "none"
    /\ Len(pre.subs) = 2
    /\ pre.subs[1].key.kind = "multi"
    /\ pre.subs[2].key = TheKey
    /\ Len(Direct) = 2
    /\ Direct[1].sub = pre.subs[1].list[1]
    /\ Direct[2].sub = pre.subs[2].list[1]
    /\ Direct[1].sub # Direct[2].sub

\* how often s is registered in d under a key that denotes t
Registrations(d, s, t) == Count(MatchingSubscribers(d, t, 1), s)

\* C5: a publish or notify_subscribers of an exact topic t that returns has
\* invoked every subscriber of every pattern that matches t, whenever the
\* pattern was subscribed, once for each of its registrations under a key
\* that denotes t, and always with t itself, never with the pattern.
C5_PatternResolvedAtNotify ==
    ((IsPublishOp \/ op.name = "notify_subscribers") /\ exc = "none")
        => \A i \in 1..Len(pre.subs) :
               (pre.subs[i].key.kind = "multi" /\ Denotes(pre.subs[i].key, TheKey))
                   => \A j \in 1..Len(pre.subs[i].list) :
                          LET s == pre.subs[i].list[j]
                              mine == SelectSeq(Direct, LAMBDA c : c.sub = s)
                          IN /\ Len(mine) = Registrations(pre.subs, s, TheKey)
                             /\ Len(mine) >= 1
                             /\ \A n \in 1..Len(mine) : mine[n].topic = TheKey

\* a topic published for the first time while a pattern that matches it, and
\* matched no published topic until then, has a subscriber
C5_Witness ==
    /\ IsPublishOp
    /\ exc = "none"
    /\ \E i \in 1..Len(pre.subs) :
           /\ pre.subs[i].key.kind = "multi"
           /\ Denotes(pre.subs[i].key, TheKey)
           /\ MatchingTopics(pre.pubs, pre.subs[i].key.name) = <<>>
           /\ \E n \in 1..Len(Direct) :
                  Direct[n].sub = pre.subs[i].list[1] /\ Direct[n].topic = TheKey

RECURSIVE Flatten(_, _)
\* the lists of the dict d one after the other, from item i on
Flatten(d, i) == IF i > Len(d) THEN <<>> ELSE d[i].list \o Flatten(d, i + 1)

\* the publishers of the dict d that the key k resolves to: those of the
\* topics k denotes, topic by topic in the order the topics were first
\* published, and within a topic in the order the publishers registered
Resolve(d, k) == Flatten(SelectSeq(d, LAMBDA e : Denotes(k, e.key)), 1)

RECURSIVE ResolveAll(_, _, _)
\* the resolutions of the keys ks one after the other, from key i on
ResolveAll(d, ks, i) ==
    IF i > Len(ks) THEN <<>> ELSE Resolve(d, ks[i]) \o ResolveAll(d, ks, i + 1)

\* the last operation left the mediator and the values as it found them
Unchanged ==
    /\ pubs = pre.pubs
    /\ subs = pre.subs
    /\ observers = pre.observers
    /\ vkind = pre.vkind
    /\ value = pre.value
    /\ published = pre.published
    /\ subscribed = pre.subscribed

\* C6: get_published_data(pattern) returns the values published, in the
\* registry as the call finds it, under the topics whose whole name the
\* pattern matches and under no other topic, topic by topic in the order the
\* topics were first published; the pattern a\d selects a1 and a2 and never
\* a10; the call keeps nothing, so the registry is as before and the next
\* query is answered from the registry it finds.
C6_PatternQuery ==
    (op.name = "get_published_data" /\ Len(op.topics) = 1
        /\ ~IsSingleTopic(TheKey))
        => /\ exc = "none"
           /\ ret = Resolve(pre.pubs, TheKey)
           /\ TheKey.name = "a\\d"
                  => ret = Flatten(SelectSeq(pre.pubs,
                                 LAMBDA e : e.key.name \in {"a1", "a2"}), 1)
           /\ Unchanged

\* the pattern a\d queried while a1, a2 and a10 are published: it returns
\* the two values of a1 and a2
C6_Witness ==
    /\ op.name = "get_published_data"
    /\ op.topics = <<Multi("a\\d")>>
    /\ Len(pre.pubs) = 3
    /\ HasKey(pre.pubs, Single("a10"))
    /\ exc = "none"
    /\ Len(ret) = 2
    /\ ret[1] # ret[2]

\* C7: get_published_data(k1, ..., kn) is the resolutions of k1, ..., kn one
\* after the other; an exact topic contributes one entry for each of its
\* publishers in the order they registered, and a topic that two of the
\* keys denote contributes its entries once for each of the two.
C7_Concatenation ==
    op.name = "get_published_data"
        => /\ exc = "none"
           /\ ret = ResolveAll(pre.pubs, op.topics, 1)
           /\ \A i \in 1..Len(op.topics) :
                  IsSingleTopic(op.topics[i])
                      => Resolve(pre.pubs, op.topics[i])
                             = DictGet(pre.pubs, op.topics[i])

\* an exact topic with two publishers queried together with a pattern that
\* matches it: its two entries come twice
C7_Witness ==
    /\ op.name = "get_published_data"
    /\ Len(op.topics) = 2
    /\ IsSingleTopic(op.topics[1])
    /\ ~IsSingleTopic(op.topics[2])
    /\ Denotes(op.topics[2], op.topics[1])
    /\ Len(DictGet(pre.pubs, op.topics[1])) = 2
    /\ exc = "none"
    /\ Len(ret) >= 4
    /\ SubSeq(ret, 1, 2) = DictGet(pre.pubs, op.topics[1])
    /\ SubSeq(ret, 3, 4) = DictGet(pre.pubs, op.topics[1])

\* the exact topics without a publisher that the last operation was called with
Unpublished ==
    {i \in 1..Len(op.topics) :
         IsSingleTopic(op.topics[i]) /\ DictGet(pre.pubs, op.topics[i]) = <<>>}

\* C8: get_published_data with an exact topic that has no publisher does not
\* raise, returns nothing for that topic, and leaves the registry as it was:
\* the topic is no key of the publishers afterwards, and every pattern
\* resolves to what it resolved to before.
C8_EmptyQuery ==
    (op.name = "get_published_data" /\ Unpublished # {})
        => /\ exc = "none"
           /\ Len(op.topics) = 1 => ret = <<>>
           /\ Unchanged
           /\ \A i \in Unpublished : ~HasKey(pubs, op.topics[i])
           /\ \A p \in Patterns :
                  /\ Resolve(pubs, Multi(p)) = Resolve(pre.pubs, Multi(p))
                  /\ MatchingTopics(pubs, p) = MatchingTopics(pre.pubs, p)

\* an exact topic queried that nothing publishes, that a pattern matches, in
\* a registry that holds another topic
C8_Witness ==
    /\ op.name = "get_published_data"
    /\ Len(op.topics) = 1
    /\ Unpublished = {1}
    /\ \E p \in Patterns : Denotes(Multi(p), TheKey)
    /\ pre.pubs # <<>>
    /\ ret = <<>>
    /\ exc = "none"
    /\ pubs = pre.pubs

RECURSIVE ExpectedValue(_, _, _)
RECURSIVE ExpectedSum(_, _, _, _)
\* what get_value of the value v is in the program state st: of a static
\* value the number it holds, of a dynamic value the sum of what its keys
\* resolve to; n bounds the nesting of dynamic values
ExpectedValue(st, v, n) ==
    IF st.vkind[v] = "static" THEN st.value[v]
    ELSE IF n = 0 THEN 0
    ELSE ExpectedSum(st, ResolveAll(st.pubs, st.subscribed[v], 1), 1, n - 1)

\* the sum of the expected values of vs, from item i on
ExpectedSum(st, vs, i, n) ==
    IF i > Len(vs) THEN 0
    ELSE ExpectedValue(st, vs[i], n) + ExpectedSum(st, vs, i + 1, n)

RECURSIVE Deliveries(_, _, _)
\* the invocations a notification of the topics ts makes itself in the
\* registry d: for every topic, from topic i on, the subscribers of the keys
\* that denote it
Deliveries(d, ts, i) ==
    IF i > Len(ts) THEN <<>>
    ELSE LET to == MatchingSubscribers(d, ts[i], 1)
         IN [j \in 1..Len(to) |-> [sub |-> to[j], topic |-> ts[i]]]
                \o Deliveries(d, ts, i + 1)

\* what the callbacks of the last operation read: the rows of all of them
AllSeen == Flatten([i \in 1..Len(calls) |-> [list |-> calls[i].seen]], 1)

\* C9: set_value(x) on a static value leaves x stored, whether or not x is
\* the value it held, and a call that returns has invoked the subscribers of
\* every topic of the value once each, in order; every get_value a callback
\* made during the call read the state with x stored, so a read of the value
\* itself read x.
C9_StoreThenNotify ==
    op.name = "set_value"
        => /\ value[op.val] = op.x
           /\ exc = "none"
                  => [i \in 1..Len(Direct) |->
                         [sub |-> Direct[i].sub, topic |-> Direct[i].topic]]
                         = Deliveries(pre.subs, pre.published[op.val], 1)
           /\ \A i \in 1..Len(AllSeen) :
                  /\ AllSeen[i].x = ExpectedValue(Now, AllSeen[i].val, MaxDepth + 1)
                  /\ AllSeen[i].val = op.val => AllSeen[i].x = op.x

\* a static value set to another number than it held, and a callback that
\* read the new number during the call
C9_Witness ==
    /\ op.name = "set_value"
    /\ pre.value[op.val] # op.x
    /\ exc = "none"
    /\ \E i \in 1..Len(AllSeen) : AllSeen[i] = [val |-> op.val, x |-> op.x]

\* the values the keys of the dynamic value of the last operation resolve to
Dependencies == ResolveAll(pre.pubs, pre.subscribed[op.val], 1)

\* C10: get_value of a dynamic value that returns is the sum, from 0, of
\* the current values of the publishers its keys resolve to in the registry
\* of that moment; it is 0, and the call returns, when they resolve to
\* nothing; the call stores nothing.
C10_AggregateIsSum ==
    (op.name = "get_value" /\ pre.vkind[op.val] = "dynamic")
        => /\ exc = "none" => ret = ExpectedValue(pre, op.val, MaxDepth + 1)
           /\ Dependencies = <<>> => exc = "none" /\ ret = 0
           /\ Unchanged

\* a dynamic value with two dependencies read after the static value behind
\* them was set to 2: it is 4
C10_Witness ==
    /\ op.name = "get_value"
    /\ pre.vkind[op.val] = "dynamic"
    /\ Len(Dependencies) = 2
    /\ \A i \in 1..2 : pre.vkind[Dependencies[i]] = "static"
                           /\ pre.value[Dependencies[i]] = 2
    /\ exc = "none"
    /\ ret = 4

\* ------------------------------------------------------------------ delivery per key

RECURSIVE PerKey(_, _, _, _)
\* how often the subscriber s stands under the keys of d, from key i on,
\* that match the topic t: the sum over the matching keys
PerKey(d, s, t, i) ==
    IF i > Len(d) THEN 0
    ELSE (IF KeyMatches(d[i].key, t) THEN Count(d[i].list, s) ELSE 0)
             + PerKey(d, s, t, i + 1)

\* the subscribers registered in d
Registered(d) == UNION {{d[i].list[j] : j \in 1..Len(d[i].list)} : i \in 1..Len(d)}

\* the subscriber s stands under the exact key of t and under a pattern
\* that matches t
UnderBoth(d, s, t) ==
    /\ \E i \in 1..Len(d) :
           d[i].key = t /\ Count(d[i].list, s) > 0
    /\ \E i \in 1..Len(d) :
           /\ ~IsSingleTopic(d[i].key)
           /\ KeyMatches(d[i].key, t)
           /\ Count(d[i].list, s) > 0

\* C18: a notify_subscribers(t) that returns has invoked every subscriber
\* once for each of its registrations under a key that matches t, so a
\* subscriber under the exact key and under a matching pattern is invoked
\* at least twice; nothing is de-duplicated.
C18_OncePerMatchingKey ==
    (op.name = "notify_subscribers" /\ exc = "none")
        => \A s \in Registered(pre.subs) :
               LET mine == SelectSeq(Direct, LAMBDA c : c.sub = s)
               IN /\ Len(mine) = PerKey(pre.subs, s, TheKey, 1)
                  /\ \A n \in 1..Len(mine) : mine[n].topic = TheKey
                  /\ UnderBoth(pre.subs, s, TheKey) => Len(mine) >= 2

\* the plain callback under the exact key a1 and under the pattern, and a1
\* notified: the callback is invoked twice
C18_Witness ==
    /\ op.name = "notify_subscribers"
    /\ exc = "none"
    /\ TheKey = Single("a1")
    /\ UnderBoth(pre.subs, RecSubscriber("s1"), TheKey)
    /\ Len(Direct) = 2
    /\ Direct[1].sub = RecSubscriber("s1")
    /\ Direct[2].sub = RecSubscriber("s1")

\* ------------------------------------------------------------------ order within a key

\* xs begins with ys
IsPrefix(ys, xs) == Len(ys) <= Len(xs) /\ SubSeq(xs, 1, Len(ys)) = ys

\* the last operation left every key in its place and every subscriber of
\* a key in its place in the key's list: it has at most added keys behind
\* the keys and subscribers behind the subscribers
SubscribersKept ==
    /\ Len(pre.subs) <= Len(subs)
    /\ \A i \in 1..Len(pre.subs) :
           /\ subs[i].key = pre.subs[i].key
           /\ IsPrefix(pre.subs[i].list, subs[i].list)

\* a subscribe call has put its subscriber at the end of the list of its key
SubscribedLast ==
    (IsSubscribeOp /\ HasKey(subs, TheKey))
        => LET l == DictGet(subs, TheKey)
           IN /\ l # <<>>
              /\ l[Len(l)] = op.sub
              /\ SubSeq(l, 1, Len(l) - 1) = DictGet(pre.subs, TheKey)

\* before the n-th topic of the last operation reaches the i-th key, the
\* operation has made this many invocations itself
Before(n, i) ==
    Len(Deliveries(pre.subs, SubSeq(op.topics, 1, n - 1), 1))
        + Len(MatchingSubscribers(SubSeq(pre.subs, 1, i - 1), op.topics[n], 1))

\* the xs are all different
NoDuplicate(xs) == \A a \in 1..Len(xs), b \in 1..Len(xs) : xs[a] = xs[b] => a = b

\* C19: no operation removes or reorders the subscribers of a key, a
\* subscribe puts the subscriber at the end, and a notification that returns
\* has, for every topic it notified and every key matching the topic,
\* invoked the entries of the key's list one after the other in the list's
\* order, which is the order of subscription, once for each entry; so a
\* subscriber that subscribed once under the key is invoked exactly once
\* for the key.
C19_SubscriptionOrder ==
    /\ SubscribersKept
    /\ SubscribedLast
    /\ (IsNotifyingOp /\ exc = "none")
           => /\ Len(Direct) = Len(Deliveries(pre.subs, op.topics, 1))
              /\ \A n \in 1..Len(op.topics), i \in 1..Len(pre.subs) :
                     KeyMatches(pre.subs[i].key, op.topics[n])
                         => LET l == pre.subs[i].list
                                mine == SubSeq(Direct, Before(n, i) + 1,
                                               Before(n, i) + Len(l))
                            IN /\ \A j \in 1..Len(l) :
                                      /\ mine[j].sub = l[j]
                                      /\ mine[j].topic = op.topics[n]
                               /\ NoDuplicate(l)
                                      => \A j \in 1..Len(l) :
                                             Len(SelectSeq(mine, LAMBDA c : c.sub = l[j])) = 1

\* a topic notified whose exact key has two subscribers, the callback of a
\* dynamic value first and the plain callback second, no other key matching
C19_Witness ==
    /\ op.name \in {"notify_subscribers", "set_value"}
    /\ exc = "none"
    /\ Len(op.topics) = 1
    /\ \E i \in 1..Len(pre.subs) :
           /\ pre.subs[i].key = TheKey
           /\ Len(pre.subs[i].list) = 2
           /\ pre.subs[i].list[1].kind = "dyn"
           /\ pre.subs[i].list[2].kind = "rec"
    /\ Len(Direct) = 2
    /\ Direct[1].sub.kind = "dyn"
    /\ Direct[2].sub.kind = "rec"

\* ------------------------------------------------------------------ two leaves

\* The leaves a1 and a10 are created holding 10 and 2, the dynamic value a2
\* subscribes to their topics, a leaf is set to -1, and a2 is read.

\* the static values of the behaviours of SpecPair and what they are created with
Leaves == {<<"a1", 10>>, <<"a10", 2>>}

\* what set_value is called with in SpecPair
PairVals == {-1}

NextPair ==
    \/ \E l \in Leaves : DoNewStaticValue(l[1], l[2])
    \/ DoNewDynamicValue("a2")
    \/ \E l \in Leaves : DoValueSubscribe("a2", Single(l[1]))
    \/ \E l \in Leaves, x \in PairVals : DoSetValue(l[1], x)
    \/ DoGetValue("a2")

SpecPair == Init /\ [][NextPair]_vars

\* a2 is read while it depends on each of the two leaves once
PairRead ==
    /\ op.name = "get_value"
    /\ op.val = "a2"
    /\ exc = "none"
    /\ Dependencies \in {<<"a1", "a10">>, <<"a10", "a1">>}

\* C11 as claimed: the sum of the leaves holding 10 and 2 is 12, and it is
\* 10 once one of the leaves was set to -1.
C11_TwelveThenTen ==
    PairRead
        => /\ (pre.value["a1"] = 10 /\ pre.value["a10"] = 2) => ret = 12
           /\ (pre.value["a1"] = -1 /\ pre.value["a10"] = 2) => ret = 10
           /\ (pre.value["a1"] = 10 /\ pre.value["a10"] = -1) => ret = 10

\* C11 as amended: the sum of the leaves holding 10 and 2 is 12; once the
\* leaf that held 2 was set to -1 it is 9, and once the leaf that held 10
\* was set to -1 it is 1; get_value is the only call made to learn it.
C11_TwelveThenNine ==
    PairRead
        => /\ (pre.value["a1"] = 10 /\ pre.value["a10"] = 2) => ret = 12
           /\ (pre.value["a1"] = -1 /\ pre.value["a10"] = 2) => ret = 1
           /\ (pre.value["a1"] = 10 /\ pre.value["a10"] = -1) => ret = 9

\* a2 read after the leaf that held 2 was set to -1: it is 9
C11_Witness ==
    /\ PairRead
    /\ pre.value["a1"] = 10
    /\ pre.value["a10"] = -1
    /\ ret = 9

\* ------------------------------------------------------------------ chains

\* The leaf a1 and the dynamic values a2 and a10, which subscribe to exact
\* topics and to the pattern, so that one can depend on the other, on
\* itself, or on both.

\* the dynamic values of the behaviours of SpecChain
ChainNames == {"a2", "a10"}

\* the value the leaf is set to
ChainVals == {2}

\* the values are created first, in the order a1, a2, a10
ChainTurn(n) ==
    /\ n = "a2" => vkind["a1"] # "none"
    /\ n = "a10" => vkind["a2"] # "none"

ChainReady == \A n \in Names : vkind[n] # "none"

\* v.subscribe(k)
ChainValueSubscribe(v, k) ==
    /\ Quiet
    /\ ChainReady
    /\ vkind[v] = "dynamic"
    /\ NumSubs < MaxChainCalls
    /\ Ran(Op("value_subscribe", DynSubscriber(v, Len(subscribed[v]) + 1),
              <<k>>, v, 0),
           [ValueSubscribe(Now, v, <<k>>, 0) EXCEPT !.ret = None])

\* mediator.subscribe(s, k) with a plain callback s
ChainSubscribe(s, k) ==
    /\ Quiet
    /\ ChainReady
    /\ NumSubs < MaxChainCalls
    /\ Ran(Op("subscribe", RecSubscriber(s), <<k>>, "", 0),
           [Subscribe(Now, RecSubscriber(s), <<k>>, 0) EXCEPT !.ret = None])

NextChain ==
    \/ \E n \in StaticNames, x \in NewVals : DoNewStaticValue(n, x)
    \/ \E n \in ChainNames : ChainTurn(n) /\ DoNewDynamicValue(n)
    \/ \E v \in ChainNames, k \in Keys : ChainValueSubscribe(v, k)
    \/ \E s \in Recorders, k \in Keys : ChainSubscribe(s, k)
    \/ \E v \in StaticNames, x \in ChainVals : DoSetValue(v, x)
    \/ \E t \in Names : DoNotifySubscribers(t)
    \/ \E p \in Patterns : DoGetPublishedData(<<Multi(p)>>)
    \/ \E v \in ChainNames : DoGetValue(v)

SpecChain == Init /\ [][NextChain]_vars

\* in the program state st the dynamic value w has subscribed to a key that
\* denotes the topic t
Listens(st, w, t) ==
    /\ st.vkind[w] = "dynamic"
    /\ \E i \in 1..Len(st.subscribed[w]) : Denotes(st.subscribed[w][i], t)

\* in the program state st a notification of the value u invokes the
\* callback of the dynamic value w
Feeds(st, u, w) ==
    /\ st.vkind[u] # "none"
    /\ \E j \in 1..Len(st.published[u]) : Listens(st, w, st.published[u][j])

\* the last operation invoked, at some depth, every subscriber that the
\* topics of the value v had when it began, with the topic
Reached(v) ==
    \A j \in 1..Len(pre.published[v]) :
        LET t == pre.published[v][j]
            to == MatchingSubscribers(pre.subs, t, 1)
        IN \A n \in 1..Len(to) :
               \E c \in 1..Len(calls) :
                   calls[c].sub = to[n] /\ calls[c].topic = t

\* C12: when the dynamic value b depends on the dynamic value a and a on
\* the leaf l, a set_value of l that returns has invoked every subscriber of
\* a's topic and every subscriber of b's topic.
C12_ChainReached ==
    (op.name = "set_value" /\ exc = "none")
        => \A a \in Names, b \in Names :
               (Feeds(pre, op.val, a) /\ Feeds(pre, a, b))
                   => Reached(a) /\ Reached(b)

\* the leaf a1 set while a2 depends on it and a10 on a2 and a plain callback
\* on a10: the callback is invoked two levels below the callback of a2
C12_Witness ==
    /\ op.name = "set_value"
    /\ exc = "none"
    /\ op.val = "a1"
    /\ Feeds(pre, "a1", "a2")
    /\ Feeds(pre, "a2", "a10")
    /\ ~Feeds(pre, "a1", "a10")
    /\ \E c \in 1..Len(calls) :
           /\ calls[c].sub.kind = "rec"
           /\ calls[c].topic = Single("a10")
           /\ calls[c].depth = 3

\* the registry after the last operation
After == [vkind |-> vkind, published |-> published, subscribed |-> subscribed]

RECURSIVE PathIn(_, _, _, _)
\* a notification of u reaches the callback of w through at most n callbacks
PathIn(st, u, w, n) ==
    /\ n > 0
    /\ \/ Feeds(st, u, w)
       \/ \E x \in Names : Feeds(st, u, x) /\ PathIn(st, x, w, n - 1)

Path(st, u, w) == PathIn(st, u, w, Cardinality(Names))

\* the value w depends on itself: directly, through other dynamic values, or
\* through a pattern that its own name matches
OnCycle(st, w) == Path(st, w, w)

\* a notification of u reaches a value that depends on itself
ReachesCycle(st, u) ==
    OnCycle(st, u) \/ \E w \in Names : Path(st, u, w) /\ OnCycle(st, w)

\* the nesting depth of the callbacks of the last operation
Deepest ==
    IF calls = <<>> THEN 0
    ELSE CHOOSE n \in 0..MaxDepth :
             /\ \E c \in 1..Len(calls) : calls[c].depth = n
             /\ \A c \in 1..Len(calls) : calls[c].depth <= n

\* C16: there is no cycle detection. A set_value whose cascade reaches a
\* value that depends on itself, and a subscribe of a value that depends on
\* itself once the key is added and whose replay invokes its callback, never
\* return: the recursion goes on until the interpreter's limit ends it with
\* RecursionError.
C16_CycleNeverCompletes ==
    /\ (op.name = "set_value" /\ ReachesCycle(pre, op.val))
           => exc = "RecursionError"
    /\ (op.name = "value_subscribe" /\ OnCycle(After, op.val) /\ Direct # <<>>)
           => exc = "RecursionError"

\* a2 depends on a10 and a10 on a2, neither on itself alone, and the leaf a1
\* that a2 depends on is set: the callbacks nest until the limit
C16_Witness ==
    /\ op.name = "set_value"
    /\ op.val = "a1"
    /\ Feeds(pre, "a1", "a2")
    /\ Feeds(pre, "a2", "a10")
    /\ Feeds(pre, "a10", "a2")
    /\ ~Feeds(pre, "a2", "a2")
    /\ ~Feeds(pre, "a10", "a10")
    /\ exc = "RecursionError"
    /\ Deepest = MaxDepth

\* no value of the registry st depends on itself
Acyclic(st) == \A w \in Names : ~OnCycle(st, w)

\* the operations that return something or notify somebody
IsCall == op.name # "init"

\* C17: in a registry without a cycle (the one the operation leaves, which
\* has every dependency of the one it found) every operation returns, and
\* the callbacks it invoked nest no deeper than there are values: the
\* cascade is finite.
C17_AcyclicCompletes ==
    (IsCall /\ Acyclic(After))
        => /\ exc = "none"
           /\ Deepest <= Cardinality(Names)

\* a set_value in a registry without a cycle whose cascade goes through the
\* callback of a dynamic value to a plain callback, and returns
C17_Witness ==
    /\ op.name = "set_value"
    /\ Acyclic(After)
    /\ exc = "none"
    /\ Deepest = 2
    /\ \E c \in 1..Len(calls) : calls[c].sub.kind = "dyn" /\ calls[c].depth = 1
    /\ \E c \in 1..Len(calls) : calls[c].sub.kind = "rec" /\ calls[c].depth = 2

\* ------------------------------------------------------------------ observers

\* mediator.add_observer(o)
DoAddObserver(o) ==
    /\ Quiet
    /\ Len(observers) < MaxObservers
    /\ Ran(Op("add_observer", NoSubscriber, <<>>, o, 0),
           [Now EXCEPT !.observers = Append(@, o), !.ret = None])

NextObs ==
    \/ \E o \in Observers : DoAddObserver(o)
    \/ \E n \in StaticNames, x \in NewVals : DoNewStaticValue(n, x)
    \/ \E v \in Names, t \in Names : DoValuePublish(v, t)
    \/ \E s \in Recorders, k \in Keys : DoSubscribe(s, k)
    \/ \E t \in Names : DoNotifySubscribers(t)

SpecObs == Init /\ [][NextObs]_vars

\* the operations that notify the observers
IsObservedOp == IsPublishOp \/ op.name \in {"subscribe", "notify_subscribers"}

\* the methods of observer i of the last operation that were called
ObserverEvents(i) ==
    {calls[c].ev : c \in {n \in 1..Len(calls) :
                              calls[n].sub = [kind |-> "obs",
                                              id |-> pre.observers[i], n |-> 0]}}

\* C13: a publish, subscribe or notify_subscribers returns whatever the
\* observers do, and has notified every observer, those after a failing one
\* included; a publish has notified the topic's subscribers.
C13_ObserverIsolated ==
    IsObservedOp
        => /\ exc = "none"
           /\ \A i \in 1..Len(pre.observers) : ObserverEvents(i) # {}
           /\ IsPublishOp
                  => Len(Direct) = Len(MatchingSubscribers(pre.subs, TheKey, 1))

\* ------------------------------------------------------------------ failing subscribers

\* mediator.subscribe(f, k) with a plain callback f that raises
DoSubscribeFailing(f, k) ==
    /\ Quiet
    /\ NumSubs + NumPubs < MaxCalls
    /\ Ran(Op("subscribe", FailSubscriber(f), <<k>>, "", 0),
           [Subscribe(Now, FailSubscriber(f), <<k>>, 0) EXCEPT !.ret = None])

NextFail ==
    \/ \E n \in StaticNames, x \in NewVals : DoNewStaticValue(n, x)
    \/ \E n \in DynamicNames : DoNewDynamicValue(n)
    \/ \E v \in Names, k \in Keys : DoValueSubscribe(v, k)
    \/ \E s \in Recorders, k \in Keys : DoSubscribe(s, k)
    \/ \E f \in Failers, k \in Keys : DoSubscribeFailing(f, k)
    \/ \E v \in Names, x \in Vals : DoSetValue(v, x)
    \/ \E t \in Names : DoNotifySubscribers(t)

SpecFail == Init /\ [][NextFail]_vars

\* the callbacks of the last operation that raised by themselves
Raisers == {c \in 1..Len(calls) : calls[c].sub.kind = "bad"}

\* C14: when a subscriber raises during a publish, notify_subscribers or
\* set_value, the operation ends with what it raised and nothing is invoked
\* after it, at any depth: the operation has invoked the subscribers in the
\* notification order up to the one whose call raised, and no further; an
\* operation that has a raising subscriber to notify does not return.
C14_SubscriberFailurePropagates ==
    IsNotifyingOp
        => LET want == Deliveries(pre.subs, op.topics, 1)
           IN /\ Raisers # {}
                     => /\ exc = "SubscriberError"
                        /\ Raisers = {Len(calls)}
              /\ Len(Direct) <= Len(want)
              /\ \A i \in 1..Len(Direct) :
                     Direct[i].sub = want[i].sub /\ Direct[i].topic = want[i].topic
              /\ exc = "none" => Len(Direct) = Len(want)
              /\ (\E n \in 1..Len(want) : want[n].sub.kind = "bad")
                     => exc # "none"

\* a topic notified that has a raising subscriber and, after it, another
\* subscriber: the first is invoked, the operation raises, the other is not
\* invoked
C14_Witness ==
    /\ op.name \in {"notify_subscribers", "set_value"}
    /\ exc = "SubscriberError"
    /\ Len(Deliveries(pre.subs, op.topics, 1)) = 2
    /\ Deliveries(pre.subs, op.topics, 1)[1].sub.kind = "bad"
    /\ Deliveries(pre.subs, op.topics, 1)[2].sub.kind # "bad"
    /\ Len(calls) = 1
    /\ calls[1].sub.kind = "bad"

\* ------------------------------------------------------------------ re-entrant callbacks

\* the callbacks that call back into the mediator
Reentrants ==
    {ResubSubscriber(t) : t \in {"a1", "a10"}}
        \cup {RepubSubscriber(t) : t \in {"a1", "a10"}}

\* mediator.subscribe(r, k) with a callback r that calls back into the mediator
DoSubscribeReentrant(r, k) ==
    /\ Quiet
    /\ r.kind = "repub" => vkind["a1"] # "none"
    /\ NumSubs + NumPubs < MaxCalls
    /\ Ran(Op("subscribe", r, <<k>>, "", 0),
           [Subscribe(Now, r, <<k>>, 0) EXCEPT !.ret = None])

NextReent ==
    \/ \E n \in StaticNames, x \in NewVals : DoNewStaticValue(n, x)
    \/ \E s \in Recorders, k \in Keys : DoSubscribe(s, k)
    \/ \E r \in Reentrants, k \in Keys : DoSubscribeReentrant(r, k)
    \/ \E t \in Names : DoNotifySubscribers(t)

SpecReent == Init /\ [][NextReent]_vars

\* a callback of the last operation called back into the mediator
ReentrantRan ==
    \E c \in 1..Len(calls) : calls[c].sub.kind \in {"resub", "repub"}

\* the last operation has invoked every subscriber that was registered for
\* its topics when it began, as often as it was registered
NoneSkipped ==
    LET want == Deliveries(pre.subs, op.topics, 1)
        got == [i \in 1..Len(Direct) |->
                   [sub |-> Direct[i].sub, topic |-> Direct[i].topic]]
    IN \A i \in 1..Len(want) : Count(got, want[i]) >= Count(want, want[i])

\* C15 as claimed: a callback that subscribes or publishes on the mediator
\* while a notification or replay pass is running does no harm: the operation
\* does not fail (other than by unbounded recursion), and a notification
\* invokes every subscriber that was registered and matching when it began.
C15_ReentrantSafe ==
    ReentrantRan /\ exc # "RecursionError"
        => /\ exc = "none"
           /\ IsNotifyingOp => NoneSkipped

\* the last operation added no key to either dict, but for the topic a
\* publish was called with
NoKeyAdded ==
    /\ Len(subs) = Len(pre.subs)
    /\ Len(pubs) = Len(pre.pubs)
                       + (IF IsPublishOp /\ ~HasKey(pre.pubs, TheKey) THEN 1 ELSE 0)

\* the safe half: an operation whose callbacks added no key to either dict,
\* only entries to lists that existed, does not fail and skips nobody
ReentrantAppendSafe ==
    (ReentrantRan /\ exc # "RecursionError" /\ NoKeyAdded)
        => /\ exc = "none"
           /\ IsNotifyingOp => NoneSkipped

\* a notification that invoked a callback which appended to the list of the
\* key being notified
ReentrantAppendWitness ==
    /\ op.name = "notify_subscribers"
    /\ ReentrantRan
    /\ exc = "none"
    /\ NumSubs > TotalLen(pre.subs, 1)

\* ------------------------------------------------------------------ the two value layers

\* The same calls made on the mediator's values and on the objects of
\* value.py: FixedValue for new_static_value, DynamicValue for
\* new_dynamic_value, add_provider(p) for subscribe(p.get_topic()),
\* add_observer for a subscribe of the plain callback to the value's topic.

\* subscriptions made in a behaviour of SpecRefine
MaxRefCalls == 3

\* the names an object can be created with: a10 can be given the name of a1
NameChoices(v) == IF v = "a10" THEN {"a10", "a1"} ELSE {v}

\* the value a fixed value is set to
RefVals == {2}

\* the objects that are created as fixed values
FixedNames == {"a1", "a10"}

\* what value.py's call left, ret being kept of a get_value that returned
Returned(dm, query) ==
    [dm EXCEPT !.ret = IF query /\ ~Failed(dm) THEN dm.ret ELSE <<>>]

\* v = mediator.new_static_value(n, x) and v = FixedValue(n, x)
RefNewFixed(v, n, x) ==
    /\ Quiet
    /\ vkind[v] = "none"
    /\ RanMediator(Op("new_static_value", NoSubscriber, <<Single(n)>>, v, x),
                   [NewStaticValueAs(Now, v, n, x) EXCEPT !.ret = None])
    /\ direct' = Returned(NewFixedValue(DirectNow, v, n, x), FALSE)

\* v = mediator.new_dynamic_value(n) and v = DynamicValue(n)
RefNewDynamic(v, n) ==
    /\ Quiet
    /\ vkind[v] = "none"
    /\ RanMediator(Op("new_dynamic_value", NoSubscriber, <<Single(n)>>, v, 0),
                   [NewDynamicValueAs(Now, v, n) EXCEPT !.ret = None])
    /\ direct' = Returned(NewDirectDynamicValue(DirectNow, v, n), FALSE)

\* v.subscribe(p.get_topic()) and v.add_provider(p)
RefAddProvider(v, p) ==
    /\ Quiet
    /\ vkind[v] = "dynamic"
    /\ vkind[p] # "none"
    /\ NumSubs < MaxRefCalls
    /\ RanMediator(Op("value_subscribe", DynSubscriber(v, Len(subscribed[v]) + 1),
                      <<GetTopic(Now, p)>>, v, 0),
                   [ValueSubscribe(Now, v, <<GetTopic(Now, p)>>, 0)
                        EXCEPT !.ret = None])
    /\ direct' = Returned(DirectAddProvider(DirectNow, v, p), FALSE)

\* mediator.subscribe(o, v.get_topic()) and v.add_observer(o), o printing
\* the name and get_value() of the value it is notified of
RefAddObserver(o, v) ==
    /\ Quiet
    /\ vkind[v] # "none"
    /\ NumSubs < MaxRefCalls
    /\ RanMediator(Op("subscribe", RecSubscriber(o), <<GetTopic(Now, v)>>, v, 0),
                   [Subscribe(Now, RecSubscriber(o), <<GetTopic(Now, v)>>, 0)
                        EXCEPT !.ret = None])
    /\ direct' = Returned(DirectAddObserver(DirectNow, v, RecObserver(o), 0), FALSE)

\* v.set_value(x) in both
RefSetValue(v, x) ==
    /\ Quiet
    /\ vkind[v] = "static"
    /\ RanMediator(Op("set_value", NoSubscriber, published[v], v, x),
                   [SetValue(Now, v, x) EXCEPT !.ret = None])
    /\ direct' = Returned(DirectSetValue(DirectNow, v, x), FALSE)

\* v.get_value() in both
RefGetValue(v) ==
    /\ Quiet
    /\ vkind[v] # "none"
    /\ RanMediator(Op("get_value", NoSubscriber, <<>>, v, 0), GetValue(Now, v, 0))
    /\ direct' = Returned(DirectGetValue(DirectNow, v, 0), TRUE)

NextRefine ==
    \/ \E v \in FixedNames, x \in NewVals :
           \E n \in NameChoices(v) : RefNewFixed(v, n, x)
    \/ \E v \in DynamicNames : \E n \in NameChoices(v) : RefNewDynamic(v, n)
    \/ \E v \in Names, p \in Names : RefAddProvider(v, p)
    \/ \E o \in Recorders, v \in Names : RefAddObserver(o, v)
    \/ \E v \in Names, x \in RefVals : RefSetValue(v, x)
    \/ \E v \in Names : RefGetValue(v)

SpecRefine == Init /\ [][NextRefine]_vars

\* what the plain callbacks of the mediator printed during the last
\* operation: a row for every value the callback found under the topic
MedNotes ==
    LET plain == SelectSeq(calls, LAMBDA c : c.sub.kind = "rec" /\ c.ev = "call")
    IN Flatten([i \in 1..Len(plain) |->
                   [list |-> [j \in 1..Len(plain[i].seen) |->
                                 Note(plain[i].sub.id, plain[i].topic.name,
                                      plain[i].seen[j].x)]]], 1)

\* the last call made the same notifications in the same order, returned
\* the same and raised the same in both implementations
SameOutcome ==
    /\ MedNotes = direct.notes
    /\ ret = direct.ret
    /\ exc = direct.exc

\* no two objects were created with one name
DistinctNames ==
    \A v \in Names, w \in Names :
        (v # w /\ vkind[v] # "none" /\ vkind[w] # "none")
            => direct.name[v] # direct.name[w]

\* C20 as claimed: whatever the calls, as long as every value is published
\* under its own name only and every subscription is to the exact topic of a
\* value created before, the mediator's values and value.py notify alike
\* and return alike.
C20_Refines == SameOutcome

\* C20: when moreover the values have different names and none depends on
\* itself, every call makes the same notifications in the same order, with
\* the same values read, and every get_value returns the same, in the
\* mediator's value layer and in value.py.
C20_RefinesDistinctNames == (DistinctNames /\ Acyclic(After)) => SameOutcome

\* the second leaf set while the dynamic value, which a plain callback
\* observes, has both leaves as providers: one notification, with the sum
C20_Witness ==
    /\ op.name = "set_value"
    /\ DistinctNames
    /\ Acyclic(After)
    /\ Len(direct.providers["a2"]) = 2
    /\ Len(direct.notes) = 1
    /\ direct.notes[1].name = "a2"
    /\ MedNotes = direct.notes
    /\ exc = "none"

====
